---------------------------- MODULE Spec2Model ----------------------------
(***************************************************************************)
(* A model of the procedural terrain simulator (src/main.py): the Terrain  *)
(* class (height map, vertices, triangles, render-time normals), the       *)
(* command line, and the frame loop with its orbit camera.                  *)
(*                                                                          *)
(* Numbers.  The program computes in floats; every value the modelled code  *)
(* produces is a multiple of a power of two or of a tenth, so the model     *)
(* keeps them as integers in fixed point:                                   *)
(*   zoom_distance           in tenths   (10.0 is 100, ZOOM_SPEED 0.5 is 5) *)
(*   rotation_x, rotation_y  in degrees  (ROTATION_SPEED 1.0 is 1)          *)
(*   noise samples, heights  in halves   (1.0 is 2)                         *)
(*   vertex coordinates      in quarters (TERRAIN_SCALE 0.5 is 2)           *)
(*   noise coordinates       as numerators over TERRAIN_SIZE                *)
(***************************************************************************)
EXTENDS Integers, Sequences, FiniteSets

(***************************************************************************)
(* Bounds of the model.                                                     *)
(***************************************************************************)
\* the largest grid size drawn for --size / TERRAIN_SIZE
MaxSize == 4
\* the largest seed drawn (random.randint draws from 0..10000)
MaxSeed == 1
\* rotation_x and rotation_y are followed within -MaxRot..MaxRot degrees
MaxRot == 1

(***************************************************************************)
(* Program constants.                                                       *)
(***************************************************************************)
WIDTH == 800
HEIGHT == 600
DEFAULT_TERRAIN_SIZE == 25
\* TERRAIN_SCALE = 0.5, in quarters
TERRAIN_SCALE == 2
TERRAIN_HEIGHT_SCALE == 2
NOISE_SCALE == 5
ROTATION_SPEED == 1
\* ZOOM_SPEED = 0.5, 2.0, 20.0 and the initial 10.0, in tenths
ZOOM_SPEED == 5
ZOOM_MIN == 20
ZOOM_MAX == 200
ZOOM_INITIAL == 100
\* _voronoi_noise draws 10 feature points, each coordinate in [0, 10)
VORONOI_POINTS == 10
VORONOI_DOMAIN == 10
\* the combined variant's simplex layer is seeded with seed + 1000
COMBINED_SEED_OFFSET == 1000

NOISE_CHOICES == {"perlin", "simplex", "ridged", "billow", "voronoi", "combined"}

VARIABLES
    pc,             \* where the program is
    args,           \* the command line / the Terrain constructor's arguments
    TERRAIN_SIZE,   \* the module global, rewritten from args.size by main
    perlinBasis,    \* the function noise.pnoise2 computes (a black box)
    simplexBasis,   \* the function noise.snoise2 computes (a black box)
    rngStream,      \* the stream random.random() yields after random.seed(seed)
    terrain,        \* the Terrain object: noise_type, seed, vertices, triangles
    glNormals,      \* what render() last handed to glNormal3fv, per triangle
    camera_state,   \* main's camera_state dict
    initial_state,  \* main's initial_state dict
    running,        \* run_game_loop's exit flag
    event,          \* handle_events' loop variable: the event in hand
    cursor_visible, \* pygame.mouse.set_visible's state
    event_grab,     \* pygame.event.set_grab's state
    pointer,        \* where the mouse pointer is
    viewport,       \* glViewport's <<width, height>>
    aspect          \* gluPerspective's aspect ratio, as <<width, height>>

terrainVars == <<args, TERRAIN_SIZE, perlinBasis, simplexBasis, rngStream, terrain, glNormals>>
cameraVars == <<camera_state, initial_state, running, event, cursor_visible, event_grab,
                pointer, viewport, aspect>>
vars == <<pc, terrainVars, cameraVars>>

(***************************************************************************)
(* The noise primitives.  noise.pnoise2 and noise.snoise2 are deterministic *)
(* functions of (x, y, base) the program does not define; which function    *)
(* each one is, is drawn once (perlinBasis, simplexBasis).  x and y arrive  *)
(* as numerators over TERRAIN_SIZE.  "flat" is what pnoise2 returns when    *)
(* every sample falls on a lattice point (scale a multiple of the size).    *)
(***************************************************************************)
NoiseBases == {"flat", "ramp", "checker"}

Sample(basis, x, y, base) ==
    CASE basis = "flat"    -> 0
      [] basis = "ramp"    -> 2 * (((x + base) % 3) - 1)
      [] basis = "checker" -> 2 * (((x + 2 * y + base) % 3) - 1)

pnoise2(x, y, base) == Sample(perlinBasis, x, y, base)

snoise2(x, y, base) == Sample(simplexBasis, x, y, base)

Abs(n) == IF n < 0 THEN -n ELSE n

(***************************************************************************)
(* random.seed(seed) followed by 2 * VORONOI_POINTS calls of                *)
(* random.random() * 10: the points depend on the seed alone.  The stream   *)
(* is a black box; the model draws it from RngStreams, on the integer       *)
(* points of [0, 10) x [0, 10).  For the seed 0 the points are those        *)
(* CPython's generator yields after random.seed(0), each coordinate         *)
(* rounded down: (8.44, 7.58), (4.21, 2.59), (5.11, 4.05), ...              *)
(***************************************************************************)
RngStreams == {"diagonal", "corner"}

Seed0Points ==
    << <<8, 7>>, <<4, 2>>, <<5, 4>>, <<7, 3>>, <<4, 5>>,
       <<9, 5>>, <<2, 7>>, <<6, 2>>, <<9, 9>>, <<8, 9>> >>

FeaturePoints(stream) ==
    [k \in 1..VORONOI_POINTS |->
        CASE stream = "diagonal" ->
                <<(k - 1) % VORONOI_DOMAIN, (k - 1) % VORONOI_DOMAIN>>
          [] stream = "corner" ->
                <<VORONOI_DOMAIN - 1, (VORONOI_DOMAIN - k) % VORONOI_DOMAIN>>]

\* the points drawn after random.seed(seed)
SeededPoints(seed) == IF seed = 0 THEN Seed0Points ELSE FeaturePoints(rngStream)

\* floor(sqrt(n))
Isqrt(n) == CHOOSE r \in 0..n : r * r <= n /\ (r + 1) * (r + 1) > n

MinOf(S) == CHOOSE m \in S : \A n \in S : m <= n

\* _voronoi_noise(x, y) with self.seed = seed: min_dist / 2.0 - 0.5, in
\* halves min_dist - 1; the distance is rounded down to the fixed-point grid.
VoronoiNoise(seed, x, y) ==
    LET points == SeededPoints(seed)
        dist2(k) == (x - points[k][1] * TERRAIN_SIZE) * (x - points[k][1] * TERRAIN_SIZE)
                  + (y - points[k][2] * TERRAIN_SIZE) * (y - points[k][2] * TERRAIN_SIZE)
        min_dist2 == MinOf({dist2(k) : k \in 1..VORONOI_POINTS})
    IN  (Isqrt(min_dist2) \div TERRAIN_SIZE) - 1

(***************************************************************************)
(* Terrain._generate_height_map: one cell's height, in halves.              *)
(***************************************************************************)
HeightAt(noise_type, seed, scale, i, j) ==
    LET nx == i * scale
        ny == j * scale
    IN  CASE noise_type = "perlin"   -> pnoise2(nx, ny, seed)
          [] noise_type = "simplex"  -> snoise2(nx, ny, seed)
          [] noise_type = "ridged"   -> 2 - Abs(snoise2(nx, ny, seed))
          [] noise_type = "billow"   -> Abs(pnoise2(nx, ny, seed)) * 2 - 2
          [] noise_type = "voronoi"  -> VoronoiNoise(seed, nx, ny)
          [] noise_type = "combined" ->
                (pnoise2(nx, ny, seed)
                   + snoise2(nx * 2, ny * 2, seed + COMBINED_SEED_OFFSET)) \div 2
          [] OTHER                   -> pnoise2(nx, ny, seed)

\* height_map[i][j] for i, j in range(TERRAIN_SIZE)
GenerateHeightMap(noise_type, seed, scale) ==
    [i \in 0..(TERRAIN_SIZE - 1) |->
        [j \in 0..(TERRAIN_SIZE - 1) |-> HeightAt(noise_type, seed, scale, i, j)]]

(***************************************************************************)
(* Terrain._create_vertices: the vertex of grid point (i, j), in quarters:  *)
(* x = (i - TERRAIN_SIZE/2) * TERRAIN_SCALE, y = height * height_scale.     *)
(***************************************************************************)
\* a variant: x taken from the column index, as z is
VertexAt_SwappedAxis(height_map, height_scale, i, j) ==
    << ((2 * j - TERRAIN_SIZE) * TERRAIN_SCALE) \div 2,
       2 * height_map[i][j] * height_scale,
       ((2 * j - TERRAIN_SIZE) * TERRAIN_SCALE) \div 2 >>

VertexAt(height_map, height_scale, i, j) ==
    << ((2 * i - TERRAIN_SIZE) * TERRAIN_SCALE) \div 2,
       2 * height_map[i][j] * height_scale,
       ((2 * j - TERRAIN_SIZE) * TERRAIN_SCALE) \div 2 >>

\* the inner loop: the vertices of row i from column j on
RECURSIVE VertexRow(_, _, _, _)
VertexRow(height_map, height_scale, i, j) ==
    IF j >= TERRAIN_SIZE THEN <<>>
    ELSE <<VertexAt(height_map, height_scale, i, j)>>
            \o VertexRow(height_map, height_scale, i, j + 1)

\* the outer loop: the vertices of the rows from i on
RECURSIVE VertexRows(_, _, _)
VertexRows(height_map, height_scale, i) ==
    IF i >= TERRAIN_SIZE THEN <<>>
    ELSE VertexRow(height_map, height_scale, i, 0)
            \o VertexRows(height_map, height_scale, i + 1)

CreateVertices(height_map, height_scale) == VertexRows(height_map, height_scale, 0)

(***************************************************************************)
(* Terrain._create_triangles: two triangles per grid cell, as 0-based       *)
(* vertex indices.                                                          *)
(***************************************************************************)
\* a variant: both triangles wound the other way
CellTriangles_Reversed(i, j) ==
    LET a == i * TERRAIN_SIZE + j
        b == i * TERRAIN_SIZE + (j + 1)
        c == (i + 1) * TERRAIN_SIZE + j
        d == (i + 1) * TERRAIN_SIZE + (j + 1)
    IN  << <<a, c, b>>, <<b, c, d>> >>

CellTriangles(i, j) ==
    LET a == i * TERRAIN_SIZE + j
        b == i * TERRAIN_SIZE + (j + 1)
        c == (i + 1) * TERRAIN_SIZE + j
        d == (i + 1) * TERRAIN_SIZE + (j + 1)
    IN  << <<a, b, c>>, <<b, d, c>> >>

RECURSIVE TriangleRow(_, _)
TriangleRow(i, j) ==
    IF j >= TERRAIN_SIZE - 1 THEN <<>>
    ELSE CellTriangles(i, j) \o TriangleRow(i, j + 1)

\* a variant: the outer loop over range(TERRAIN_SIZE)
RECURSIVE TriangleRows_ExtraRow(_)
TriangleRows_ExtraRow(i) ==
    IF i >= TERRAIN_SIZE THEN <<>>
    ELSE TriangleRow(i, 0) \o TriangleRows_ExtraRow(i + 1)

RECURSIVE TriangleRows(_)
TriangleRows(i) ==
    IF i >= TERRAIN_SIZE - 1 THEN <<>>
    ELSE TriangleRow(i, 0) \o TriangleRows(i + 1)

CreateTriangles == TriangleRows(0)

(***************************************************************************)
(* Terrain.render: the normal of one triangle.  np.cross(v2 - v1, v3 - v1)  *)
(* divided by its norm; a zero norm makes every component 0/0, which numpy  *)
(* evaluates to nan without raising.  The model keeps the direction before  *)
(* the division and whether the division is by a non-zero norm.             *)
(***************************************************************************)
Sub(u, v) == <<u[1] - v[1], u[2] - v[2], u[3] - v[3]>>

Cross(u, v) ==
    << u[2] * v[3] - u[3] * v[2],
       u[3] * v[1] - u[1] * v[3],
       u[1] * v[2] - u[2] * v[1] >>

\* the square of np.linalg.norm(v)
Norm2(v) == v[1] * v[1] + v[2] * v[2] + v[3] * v[3]

TriangleNormal(vertices, triangle) ==
    LET v1 == vertices[triangle[1] + 1]
        v2 == vertices[triangle[2] + 1]
        v3 == vertices[triangle[3] + 1]
        normal == Cross(Sub(v2, v1), Sub(v3, v1))
    IN  [direction |-> normal, finite |-> Norm2(normal) # 0]

\* one glNormal3fv per triangle, in the order of self.triangles
RenderNormals(t) ==
    [k \in 1..Len(t.triangles) |-> TriangleNormal(t.vertices, t.triangles[k])]

(***************************************************************************)
(* The arguments.  seed is <<>> for None and <<s>> for a given seed.        *)
(***************************************************************************)
Seeds == 0..MaxSeed

Sizes == (-1)..MaxSize

NoiseArgs == NOISE_CHOICES \cup {"fractal"}

\* what a Terrain can be constructed with
TerrainArgs ==
    [noise : NoiseArgs, seed : {<<>>} \cup {<<s>> : s \in Seeds}, size : Sizes,
     scale : {NOISE_SCALE}, height_scale : {1, TERRAIN_HEIGHT_SCALE},
     options : {{}}]

\* an option parse_arguments declares no argument for
FlightOption == "--fly"

\* the command lines the frame loop is followed from; `options` is what the
\* command line holds besides the arguments parse_arguments declares
CliArgs ==
    [noise : {"perlin", "fractal"}, seed : {<<0>>}, size : {-1, 2},
     scale : {NOISE_SCALE}, height_scale : {TERRAIN_HEIGHT_SCALE},
     options : {{}, {FlightOption}}]

NoTerrain == [noise_type |-> "", seed |-> 0, vertices |-> <<>>, triangles |-> <<>>]

NoCamera == [rotation_x |-> 0, rotation_y |-> 0, zoom_distance |-> 0, mouse_captured |-> FALSE]

NoSnapshot == [rotation_x |-> 0, rotation_y |-> 0, zoom_distance |-> 0]

\* `event` outside handle_events' loop
NoEvent == [type |-> "", key |-> "", size |-> <<>>]

\* the window system's state before main runs
InitWindow ==
    /\ camera_state = NoCamera
    /\ initial_state = NoSnapshot
    /\ running = FALSE
    /\ event = NoEvent
    /\ cursor_visible = TRUE
    /\ event_grab = FALSE
    /\ pointer = "center"
    /\ viewport = <<0, 0>>
    /\ aspect = <<0, 0>>

(***************************************************************************)
(* Terrain.__init__ and generate_terrain.  np.zeros((TERRAIN_SIZE,          *)
(* TERRAIN_SIZE)) raises ValueError for a negative size, after the          *)
(* attributes were set and before any vertex is made.                       *)
(***************************************************************************)
TerrainInit ==
    /\ pc = "construct"
    /\ \E seed \in (IF args.seed = <<>> THEN Seeds ELSE {args.seed[1]}) :
          IF TERRAIN_SIZE < 0
          THEN /\ terrain' = [NoTerrain EXCEPT !.noise_type = args.noise, !.seed = seed]
               /\ pc' = "ValueError"
          ELSE /\ terrain' =
                    [noise_type |-> args.noise,
                     seed       |-> seed,
                     vertices   |-> CreateVertices(
                                       GenerateHeightMap(args.noise, seed, args.scale),
                                       args.height_scale),
                     triangles  |-> CreateTriangles]
               /\ pc' = "constructed"
    /\ UNCHANGED <<args, TERRAIN_SIZE, perlinBasis, simplexBasis, rngStream, glNormals>>
    /\ UNCHANGED cameraVars

\* Terrain.render on a constructed terrain
TerrainRender ==
    /\ pc = "constructed"
    /\ glNormals' = RenderNormals(terrain)
    /\ pc' = "rendered"
    /\ UNCHANGED <<args, TERRAIN_SIZE, perlinBasis, simplexBasis, rngStream, terrain>>
    /\ UNCHANGED cameraVars

(***************************************************************************)
(* The Terrain class on its own: the module global and the constructor's    *)
(* arguments are drawn, the terrain is constructed and rendered once.       *)
(***************************************************************************)
InitTerrain ==
    /\ pc = "construct"
    /\ args \in TerrainArgs
    /\ TERRAIN_SIZE = args.size
    /\ perlinBasis \in NoiseBases
    /\ simplexBasis \in NoiseBases
    /\ rngStream \in RngStreams
    /\ terrain = NoTerrain
    /\ glNormals = <<>>
    /\ InitWindow

NextTerrain == TerrainInit \/ TerrainRender

SpecTerrain == InitTerrain /\ [][NextTerrain]_vars

(***************************************************************************)
(* Events.  What pygame.event.get() can hand to handle_events' loop.        *)
(***************************************************************************)
Keys == {"K_e", "K_q", "K_ESCAPE", "K_PLUS", "K_EQUALS", "K_MINUS", "K_LEFT"}

ResizeSizes == {<<1024, 768>>, <<1024, 0>>}

Quit == [type |-> "QUIT", key |-> "", size |-> <<>>]

MouseMotion == [type |-> "MOUSEMOTION", key |-> "", size |-> <<>>]

VideoResize(s) == [type |-> "VIDEORESIZE", key |-> "", size |-> s]

KeyDown(k) == [type |-> "KEYDOWN", key |-> k, size |-> <<>>]

Events ==
    {Quit, MouseMotion}
    \cup {VideoResize(s) : s \in ResizeSizes}
    \cup {KeyDown(k) : k \in Keys}

ArrowKeys == {"K_LEFT", "K_RIGHT", "K_UP", "K_DOWN"}

(***************************************************************************)
(* resize_window and setup_isometric_view: the viewport and the            *)
(* projection's aspect ratio for a new window size.  win holds what         *)
(* handle_events can write: camera_state, the cursor and grab state, the    *)
(* viewport and projection, and `ret`, the value it returns (<<>> while     *)
(* its loop goes on).                                                       *)
(***************************************************************************)
\* a variant: the resize also puts the zoom back
resize_window_ResetsZoom(win, width, height) ==
    LET h == IF height = 0 THEN 1 ELSE height
    IN  [win EXCEPT !.viewport = <<width, h>>, !.aspect = <<width, h>>,
                    !.camera_state.zoom_distance = ZOOM_INITIAL]

resize_window(win, width, height) ==
    LET h == IF height = 0 THEN 1 ELSE height
    IN  [win EXCEPT !.viewport = <<width, h>>, !.aspect = <<width, h>>]

(***************************************************************************)
(* handle_events: the body of its loop, for one event.                      *)
(***************************************************************************)
\* a variant: zoom - ZOOM_SPEED without the max
ZoomIn_NoClamp(zoom) == zoom - ZOOM_SPEED

\* max(2.0, zoom - ZOOM_SPEED)
ZoomIn(zoom) == IF zoom - ZOOM_SPEED < ZOOM_MIN THEN ZOOM_MIN ELSE zoom - ZOOM_SPEED

\* min(20.0, zoom + ZOOM_SPEED)
ZoomOut(zoom) == IF zoom + ZOOM_SPEED > ZOOM_MAX THEN ZOOM_MAX ELSE zoom + ZOOM_SPEED

\* a variant: the reset without its zoom_distance line
ResetCamera_KeepsZoom(cam, snapshot) ==
    [cam EXCEPT !.rotation_x = snapshot.rotation_x,
                !.rotation_y = snapshot.rotation_y]

ResetCamera(cam, snapshot) ==
    [cam EXCEPT !.rotation_x = snapshot.rotation_x,
                !.rotation_y = snapshot.rotation_y,
                !.zoom_distance = snapshot.zoom_distance]

\* a variant: the toggle without set_grab
ToggleCapture_NoGrab(win) ==
    LET captured == ~win.camera_state.mouse_captured
    IN  [win EXCEPT !.camera_state.mouse_captured = captured,
                    !.cursor_visible = ~captured]

ToggleCapture(win) ==
    LET captured == ~win.camera_state.mouse_captured
    IN  [win EXCEPT !.camera_state.mouse_captured = captured,
                    !.cursor_visible = ~captured,
                    !.event_grab = captured]

EventBody(win, snapshot, e) ==
    CASE e.type = "QUIT" -> [win EXCEPT !.ret = <<FALSE>>]
      [] e.type = "VIDEORESIZE" -> resize_window(win, e.size[1], e.size[2])
      [] e.type = "KEYDOWN" ->
            CASE e.key = "K_e" ->
                    [win EXCEPT !.camera_state = ResetCamera(win.camera_state, snapshot)]
              [] e.key = "K_q" -> ToggleCapture(win)
              [] e.key = "K_ESCAPE" -> [win EXCEPT !.ret = <<FALSE>>]
              [] e.key \in {"K_PLUS", "K_EQUALS"} ->
                    [win EXCEPT !.camera_state.zoom_distance = ZoomIn(@)]
              [] e.key = "K_MINUS" ->
                    [win EXCEPT !.camera_state.zoom_distance = ZoomOut(@)]
              [] OTHER -> win
      [] OTHER -> win

(***************************************************************************)
(* main, up to the Terrain: parse_arguments (argparse exits with status 2   *)
(* on a --noise outside its choices, and on an option that no add_argument  *)
(* declares), the globals, pygame and OpenGL set-up.                        *)
(***************************************************************************)
\* a variant: parse_known_args, which leaves undeclared options aside
OptionsRecognised_Ignored(options) == TRUE

\* parser.parse_args(): every option of the command line is a declared one
OptionsRecognised(options) == options = {}

\* a variant: --noise without choices
NoiseAccepted_Any(noise) == TRUE

\* argparse's choices for --noise
NoiseAccepted(noise) == noise \in NOISE_CHOICES

ParseArguments ==
    /\ pc = "start"
    /\ IF NoiseAccepted(args.noise) /\ OptionsRecognised(args.options)
       THEN /\ TERRAIN_SIZE' = args.size
            /\ viewport' = <<WIDTH, HEIGHT>>
            /\ aspect' = <<WIDTH, HEIGHT>>
            /\ pc' = "construct"
       ELSE /\ pc' = "usage_error"
            /\ UNCHANGED <<TERRAIN_SIZE, viewport, aspect>>
    /\ UNCHANGED <<args, perlinBasis, simplexBasis, rngStream, terrain, glNormals>>
    /\ UNCHANGED <<camera_state, initial_state, running, event, cursor_visible, event_grab,
                   pointer>>

\* main's camera_state and initial_state, and run_game_loop's running = True
StartLoop ==
    /\ pc = "constructed"
    /\ camera_state' = [rotation_x |-> 0, rotation_y |-> 0,
                        zoom_distance |-> ZOOM_INITIAL, mouse_captured |-> FALSE]
    /\ initial_state' = [rotation_x    |-> camera_state'.rotation_x,
                         rotation_y    |-> camera_state'.rotation_y,
                         zoom_distance |-> camera_state'.zoom_distance]
    /\ running' = TRUE
    /\ pc' = "handle_events"
    /\ UNCHANGED terrainVars
    /\ UNCHANGED <<event, cursor_visible, event_grab, pointer, viewport, aspect>>

(***************************************************************************)
(* One tick of run_game_loop.  handle_events is followed one iteration of   *)
(* its loop at a time: the next event of the queue is handled (a QUIT or    *)
(* an Escape returns False, and what is left of the queue is dropped), or   *)
(* the queue has run out and it returns True.  A mouse motion is the user   *)
(* moving the pointer; the loop has no branch for it.  `event` keeps the    *)
(* event a return inside the loop was taken on, until the next call.        *)
(***************************************************************************)
HandleEvent(e) ==
    /\ pc = "handle_events"
    /\ event' = e
    /\ LET win == EventBody(
                     [camera_state |-> camera_state, cursor_visible |-> cursor_visible,
                      event_grab |-> event_grab, viewport |-> viewport, aspect |-> aspect,
                      ret |-> <<>>],
                     initial_state, e)
       IN  /\ camera_state' = win.camera_state
           /\ cursor_visible' = win.cursor_visible
           /\ event_grab' = win.event_grab
           /\ viewport' = win.viewport
           /\ aspect' = win.aspect
           /\ IF win.ret = <<>>
              THEN UNCHANGED <<running, pc>>
              ELSE /\ running' = win.ret[1]
                   /\ pc' = "handle_keyboard_input"
    /\ pointer' = IF e.type = "MOUSEMOTION" THEN "moved" ELSE pointer
    /\ UNCHANGED terrainVars
    /\ UNCHANGED initial_state

\* the loop over the events runs out: return True
EventsDrained ==
    /\ pc = "handle_events"
    /\ running' = TRUE
    /\ event' = NoEvent
    /\ pc' = "handle_keyboard_input"
    /\ UNCHANGED terrainVars
    /\ UNCHANGED <<camera_state, initial_state, cursor_visible, event_grab, pointer,
                   viewport, aspect>>

Pressed(keys, key) == IF key \in keys THEN ROTATION_SPEED ELSE 0

\* handle_keyboard_input with the arrow keys `keys` held down
HandleKeyboardInput(keys) ==
    /\ pc = "handle_keyboard_input"
    /\ LET rx == camera_state.rotation_x + Pressed(keys, "K_UP") - Pressed(keys, "K_DOWN")
           ry == camera_state.rotation_y + Pressed(keys, "K_LEFT") - Pressed(keys, "K_RIGHT")
       IN  /\ rx \in (-MaxRot)..MaxRot
           /\ ry \in (-MaxRot)..MaxRot
           /\ camera_state' = [camera_state EXCEPT !.rotation_x = rx, !.rotation_y = ry]
    /\ pc' = "render_scene"
    /\ UNCHANGED terrainVars
    /\ UNCHANGED <<initial_state, running, event, cursor_visible, event_grab, pointer,
                   viewport, aspect>>

\* render_scene: terrain.render() under the camera's view transform
RenderScene ==
    /\ pc = "render_scene"
    /\ glNormals' = RenderNormals(terrain)
    /\ pc' = "end_of_tick"
    /\ UNCHANGED <<args, TERRAIN_SIZE, perlinBasis, simplexBasis, rngStream, terrain>>
    /\ UNCHANGED cameraVars

\* a variant: while True
LoopContinues_Always(flag) == TRUE

\* the `while running` test
LoopContinues(flag) == flag

\* a variant: the loop's exit code without the two mouse calls
ReleaseMouse_Skipped(visible, grab) == [cursor_visible |-> visible, event_grab |-> grab]

\* after the loop: pygame.mouse.set_visible(True), pygame.event.set_grab(False)
ReleaseMouse(visible, grab) == [cursor_visible |-> TRUE, event_grab |-> FALSE]

\* flip, clock.tick, then the loop's test: another tick, or the exit code
\* (the cursor shown, the grab released, pygame.quit, sys.exit)
EndOfTick ==
    /\ pc = "end_of_tick"
    /\ IF LoopContinues(running)
       THEN /\ pc' = "handle_events"
            /\ UNCHANGED <<cursor_visible, event_grab>>
       ELSE /\ cursor_visible' = ReleaseMouse(cursor_visible, event_grab).cursor_visible
            /\ event_grab' = ReleaseMouse(cursor_visible, event_grab).event_grab
            /\ pc' = "exited"
    /\ UNCHANGED terrainVars
    /\ UNCHANGED <<camera_state, initial_state, running, event, pointer, viewport, aspect>>

(***************************************************************************)
(* The program: main from a command line, the Terrain, the frame loop.      *)
(***************************************************************************)
Init ==
    /\ pc = "start"
    /\ args \in CliArgs
    /\ TERRAIN_SIZE = DEFAULT_TERRAIN_SIZE
    /\ perlinBasis = "ramp"
    /\ simplexBasis = "checker"
    /\ rngStream = "diagonal"
    /\ terrain = NoTerrain
    /\ glNormals = <<>>
    /\ InitWindow

Next ==
    \/ ParseArguments
    \/ TerrainInit
    \/ StartLoop
    \/ \E e \in Events : HandleEvent(e)
    \/ EventsDrained
    \/ \E keys \in SUBSET ArrowKeys : HandleKeyboardInput(keys)
    \/ RenderScene
    \/ EndOfTick

Spec == Init /\ [][Next]_vars

\* the frame loop's calls are fair: each one returns, and the next one is made
FairSpec ==
    /\ Spec
    /\ WF_vars(\E keys \in SUBSET ArrowKeys : HandleKeyboardInput(keys))
    /\ WF_vars(RenderScene)
    /\ WF_vars(EndOfTick)

(***************************************************************************)
(* Properties.                                                              *)
(***************************************************************************)
LoopPcs == {"handle_events", "handle_keyboard_input", "render_scene", "end_of_tick"}

Built == pc \in {"constructed", "rendered"}

\* C1: once the camera exists, through every zoom, reset, capture toggle,
\* resize and arrow-key tick, zoom_distance stays within [2.0, 20.0].
C1_ZoomWithinLimits ==
    pc \in LoopPcs \cup {"exited"} =>
        /\ camera_state.zoom_distance >= ZOOM_MIN
        /\ camera_state.zoom_distance <= ZOOM_MAX

\* a zoom-in has just been handled at the lower limit
C1_Witness ==
    /\ pc = "handle_events"
    /\ event \in {KeyDown("K_PLUS"), KeyDown("K_EQUALS")}
    /\ camera_state.zoom_distance = ZOOM_MIN

StartupSnapshot == [rotation_x |-> 0, rotation_y |-> 0, zoom_distance |-> ZOOM_INITIAL]

\* C2: the snapshot keeps its startup values through every event and tick,
\* and right after an 'E' key-down is handled rotation_x, rotation_y and
\* zoom_distance equal the snapshot's.
C2_ResetRestoresSnapshot ==
    /\ pc \in LoopPcs \cup {"exited"} => initial_state = StartupSnapshot
    /\ (pc = "handle_events" /\ event = KeyDown("K_e")) =>
          /\ camera_state.rotation_x = initial_state.rotation_x
          /\ camera_state.rotation_y = initial_state.rotation_y
          /\ camera_state.zoom_distance = initial_state.zoom_distance

\* an 'E' has just been handled, with the mouse captured and the window resized
C2_Witness ==
    /\ pc = "handle_events"
    /\ event = KeyDown("K_e")
    /\ camera_state.mouse_captured
    /\ viewport # <<WIDTH, HEIGHT>>

\* C3: a terrain of grid size n >= 2 has n*n vertices and 2*(n-1)*(n-1)
\* triangles, whatever the noise type and the seed.
C3_MeshCounts ==
    (Built /\ TERRAIN_SIZE >= 2) =>
        /\ Len(terrain.vertices) = TERRAIN_SIZE * TERRAIN_SIZE
        /\ Len(terrain.triangles) = 2 * (TERRAIN_SIZE - 1) * (TERRAIN_SIZE - 1)

\* size 4: 16 vertices and 18 triangles
C3_Witness ==
    /\ Built
    /\ TERRAIN_SIZE = 4
    /\ Len(terrain.vertices) = 16
    /\ Len(terrain.triangles) = 18

\* C4: the cell (i, j), the (i*(n-1)+j)-th in row-major order, gives the
\* triangles (a, b, c) and (b, d, c), with a = i*n+j, b = a+1, c = (i+1)*n+j,
\* d = c+1; there are no other triangles, and every index is that of a vertex.
C4_Triangulation ==
    Built =>
        LET n == TERRAIN_SIZE
            cells == IF n >= 2 THEN (n - 1) * (n - 1) ELSE 0
        IN  /\ Len(terrain.triangles) = 2 * cells
            /\ \A i \in 0..(n - 2) : \A j \in 0..(n - 2) :
                  LET a == i * n + j
                      b == a + 1
                      c == (i + 1) * n + j
                      d == c + 1
                      k == 2 * (i * (n - 1) + j)
                  IN  /\ terrain.triangles[k + 1] = <<a, b, c>>
                      /\ terrain.triangles[k + 2] = <<b, d, c>>
            /\ \A k \in 1..Len(terrain.triangles) : \A m \in 1..3 :
                  /\ terrain.triangles[k][m] >= 0
                  /\ terrain.triangles[k][m] < Len(terrain.vertices)

\* size 3: the cell (0, 0) gives (0, 1, 3) and (1, 4, 3)
C4_Witness ==
    /\ Built
    /\ TERRAIN_SIZE = 3
    /\ terrain.triangles[1] = <<0, 1, 3>>
    /\ terrain.triangles[2] = <<1, 4, 3>>

\* C5: render never divides a normal by a zero norm: the cross product of
\* every triangle of a generated mesh is non-zero.
C5_NormalsDefined ==
    pc = "rendered" =>
        /\ Len(glNormals) = Len(terrain.triangles)
        /\ \A k \in 1..Len(glNormals) :
              /\ glNormals[k].finite
              /\ glNormals[k].direction # <<0, 0, 0>>

\* an all-flat mesh with triangles has been rendered
C5_Witness ==
    /\ pc = "rendered"
    /\ Len(glNormals) > 0
    /\ \A k \in 1..Len(terrain.vertices) : terrain.vertices[k][2] = 0

\* C6, as claimed: a --noise value outside the six variants does not end the
\* program; the terrain is generated, with the perlin formula.
C6_UnknownNoiseStartsNormally ==
    (args.noise \notin NOISE_CHOICES /\ pc # "start") =>
        /\ pc # "usage_error"
        /\ (pc \in LoopPcs =>
               terrain.vertices =
                  CreateVertices(GenerateHeightMap("perlin", terrain.seed, args.scale),
                                 args.height_scale))

\* C6, amended: a --noise value outside the six variants ends the program in
\* parse_arguments with a usage error, before any terrain or camera is made.
C6_UnknownNoiseIsUsageError ==
    (args.noise \notin NOISE_CHOICES /\ pc # "start") =>
        /\ pc = "usage_error"
        /\ terrain = NoTerrain
        /\ camera_state = NoCamera
        /\ TERRAIN_SIZE = DEFAULT_TERRAIN_SIZE

C6_Witness == pc = "usage_error" /\ args.noise = "fractal"

\* C7, as claimed: for a grid size below 2, negative sizes included, terrain
\* generation raises nothing and leaves a mesh without triangles.
C7_SmallSizeNoException ==
    (TERRAIN_SIZE < 2 /\ pc # "construct") =>
        /\ pc # "ValueError"
        /\ terrain.triangles = <<>>

\* C8: handling a VIDEORESIZE event changes the viewport and the projection
\* (a height of 0 counted as 1) and leaves the camera, the capture flag, the
\* snapshot and the terrain as they were.
C8_ResizeTouchesProjectionOnly ==
    [][(pc = "handle_events" /\ \E sz \in ResizeSizes : HandleEvent(VideoResize(sz))) =>
          /\ camera_state' = camera_state
          /\ initial_state' = initial_state
          /\ terrain' = terrain
          /\ viewport' = <<event'.size[1], IF event'.size[2] = 0 THEN 1 ELSE event'.size[2]>>
          /\ aspect' = viewport']_vars

\* a resize to height 0 has just been handled, away from the startup camera
C8_Witness ==
    /\ pc = "handle_events"
    /\ event = VideoResize(<<1024, 0>>)
    /\ viewport = <<1024, 1>>
    /\ camera_state.zoom_distance # ZOOM_INITIAL
    /\ camera_state.rotation_x # 0
    /\ camera_state.mouse_captured

\* C9, as claimed: a 'Q' key-down flips the capture flag, shows or hides the
\* cursor, sets the grab, and re-centers the pointer.
C9_ToggleRecentersPointer ==
    [][HandleEvent(KeyDown("K_q")) =>
          /\ camera_state'.mouse_captured = ~camera_state.mouse_captured
          /\ cursor_visible' = ~camera_state'.mouse_captured
          /\ event_grab' = camera_state'.mouse_captured
          /\ pointer' = "center"]_vars

\* C9, amended: a 'Q' key-down flips the capture flag and in the same step
\* sets the cursor's visibility to its negation and the grab to it, and
\* leaves the pointer where it is; while the loop runs the cursor is hidden
\* iff input is grabbed iff mouse_captured.
C9_ToggleSetsCursorAndGrab ==
    [][/\ HandleEvent(KeyDown("K_q")) =>
             /\ camera_state'.mouse_captured = ~camera_state.mouse_captured
             /\ cursor_visible' = ~camera_state'.mouse_captured
             /\ event_grab' = camera_state'.mouse_captured
             /\ pointer' = pointer
       /\ pc' \in LoopPcs =>
             /\ cursor_visible' = ~camera_state'.mouse_captured
             /\ event_grab' = camera_state'.mouse_captured]_vars

\* a 'Q' has just captured the mouse, the pointer away from the center
C9_Witness ==
    /\ pc = "handle_events"
    /\ event = KeyDown("K_q")
    /\ camera_state.mouse_captured
    /\ ~cursor_visible
    /\ event_grab
    /\ pointer = "moved"

NextCall(p) ==
    CASE p = "handle_keyboard_input" -> "render_scene"
      [] p = "render_scene" -> "end_of_tick"
      [] p = "end_of_tick" -> "exited"

\* C10: handling a QUIT or an Escape key-down clears the exit flag at once;
\* from then on the tick's remaining calls are made in order, no event is
\* handled and no tick begun, and the loop is left.
C10_QuitEndsLoop ==
    /\ [][/\ (\E e \in {Quit, KeyDown("K_ESCAPE")} : HandleEvent(e)) =>
                /\ ~running'
                /\ pc' = "handle_keyboard_input"
          /\ (pc \in LoopPcs /\ ~running) =>
                /\ ~running'
                /\ pc' = NextCall(pc)]_vars
    /\ (pc \in LoopPcs /\ ~running) ~> (pc = "exited")

\* the loop has been left on an Escape, arrow keys having turned the camera
\* in the tick that ended it
C10_Witness ==
    /\ pc = "exited"
    /\ event = KeyDown("K_ESCAPE")
    /\ camera_state.rotation_x # 0

\* C11, as claimed, at the seed 0: every height of the voronoi terrain,
\* min_dist/2 - 0.5, lies in [-0.5, 0.5] (in halves, [-1, 1]; a vertex's y is
\* height * height_scale).
C11_VoronoiWithinHalf ==
    (Built /\ terrain.noise_type = "voronoi" /\ terrain.seed = 0) =>
        \A k \in 1..Len(terrain.vertices) :
            /\ terrain.vertices[k][2] >= -(2 * args.height_scale)
            /\ terrain.vertices[k][2] <= 2 * args.height_scale


CameraFields == {"rotation_x", "rotation_y", "zoom_distance", "mouse_captured"}

C13_ExitReleasesMouse ==
    pc = "exited" =>
        /\ event \in {Quit, KeyDown("K_ESCAPE")}
        /\ cursor_visible
        /\ ~event_grab

C13_Witness ==
    /\ pc = "exited"
    /\ event = KeyDown("K_ESCAPE")
    /\ camera_state.mouse_captured
    /\ cursor_visible
    /\ ~event_grab

====
